---- MODULE Spec2Model ----
(***************************************************************************)
(* Model of the viewport-adaptive colour-scale engine of app.py: the two   *)
(* Dash callbacks update_map and lock_or_reset_callback, the component     *)
(* properties they read and write, and the events that trigger them.       *)
(*                                                                         *)
(* Conventions.                                                            *)
(*  - A Python value that may be None is a sequence of length 0 (None) or  *)
(*    1 (the value): None == <<>>, Some(x) == <<x>>.  A missing dict key   *)
(*    is modelled the same way (dict.get(key) returns None).               *)
(*  - Python lists are sequences; a Dash checklist value is a list.        *)
(*  - Coordinates are integers in thousandths of a degree; attribute       *)
(*    values are integers (the source rounds them to a fixed precision).   *)
(*  - Geometries are axis-aligned rectangles; a polygon built from the     *)
(*    viewport's corner coordinates is the rectangle spanned by them.      *)
(***************************************************************************)
EXTENDS Integers, Sequences, FiniteSets, TLC

VARIABLES
    var,                \* var-dropdown.value
    dynamic,            \* dynamic-scale.value   (checklist list)
    lock_selection,     \* lock-selection.value  (checklist list)
    n_clicks,           \* reset-view.n_clicks
    relayoutData,       \* map.relayoutData (None or a payload)
    lockedColourScale,  \* Store locked-colour-scale.data
    lockedBbox,         \* Store locked-bbox.data
    lockedRegions,      \* Store locked-regions.data
    figure,             \* map.figure: the last output of update_map
    pendingMap,         \* an update_map invocation is queued
    pendingLock,        \* a lock_or_reset_callback invocation is queued
    lastCallback,       \* the callback that ran last
    triggered_id,       \* ctx.triggered_id of the callback that ran last
    capturedVar         \* history: the attribute the stored snapshot was taken for

vars == <<var, dynamic, lock_selection, n_clicks, relayoutData,
          lockedColourScale, lockedBbox, lockedRegions, figure,
          pendingMap, pendingLock, lastCallback, triggered_id, capturedVar>>

-----------------------------------------------------------------------------
(* Bounds *)

MaxClicks == 2

-----------------------------------------------------------------------------
(* Python values *)

None == <<>>
Some(x) == <<x>>
IsNone(o) == o = <<>>
Val(o) == o[1]

\* x in list
In(x, list) == \E i \in DOMAIN list : list[i] = x

\* dict.get(key, default) on an optional field
Get(field, default) == IF IsNone(field) THEN default ELSE Val(field)

SetMin(S) == CHOOSE x \in S : \A y \in S : x <= y
SetMax(S) == CHOOSE x \in S : \A y \in S : x >= y

\* max(a, b)
max(a, b) == IF a >= b THEN a ELSE b

-----------------------------------------------------------------------------
(* Feature Store *)

available_vars == <<"ghg_emissions", "pop_density">>

\* shapely.geometry.box(minx, miny, maxx, maxy)
box(minx, miny, maxx, maxy) ==
    [lonMin |-> minx, latMin |-> miny, lonMax |-> maxx, latMax |-> maxy]

\* The loaded table without the ID column: five regions in a row,
\* each 1 degree wide and 1 degree high, 1 degree apart.
shapefile ==
    << [geometry |-> box(0, 0, 1000, 1000),    ghg_emissions |-> 1,   pop_density |-> 40],
       [geometry |-> box(2000, 0, 3000, 1000), ghg_emissions |-> 2,   pop_density |-> 40],
       [geometry |-> box(4000, 0, 5000, 1000), ghg_emissions |-> 3,   pop_density |-> 7],
       [geometry |-> box(6000, 0, 7000, 1000), ghg_emissions |-> 100, pop_density |-> -3],
       [geometry |-> box(8000, 0, 9000, 1000), ghg_emissions |-> 200, pop_density |-> 15] >>

\* gdf["ID"] = gdf.index.astype(str): the zero-based row index as a string
gdf ==
    [i \in DOMAIN shapefile |->
        [ID |-> ToString(i - 1),
         geometry |-> shapefile[i].geometry,
         ghg_emissions |-> shapefile[i].ghg_emissions,
         pop_density |-> shapefile[i].pop_density]]

\* geometry.intersects(region): the two share at least one point
intersects(g, r) ==
    /\ g.lonMin <= r.lonMax /\ r.lonMin <= g.lonMax
    /\ g.latMin <= r.latMax /\ r.latMin <= g.latMax

\* gdf[gdf.geometry.intersects(region)]
Visible(region) == SelectSeq(gdf, LAMBDA f : intersects(f.geometry, region))

\* gdf[gdf["ID"].isin(ids)]
IsIn(ids) == SelectSeq(gdf, LAMBDA f : In(f.ID, ids))

\* df["ID"].tolist()
IDs(df) == [i \in DOMAIN df |-> df[i].ID]

\* df[v].min() of a non-empty frame
ColMin(df, v) == SetMin({df[i][v] : i \in DOMAIN df})

\* Variant: max() written as min()
ColMax_as_min(df, v) == SetMin({df[i][v] : i \in DOMAIN df})

\* df[v].max() of a non-empty frame
ColMax(df, v) == SetMax({df[i][v] : i \in DOMAIN df})

\* Polygon(coords) raises for fewer than three points
PolygonRaises(coords) == Len(coords) < 3

\* Polygon(coords) for the corner points of a viewport
Polygon(coords) ==
    box(SetMin({coords[i][1] : i \in DOMAIN coords}),
        SetMin({coords[i][2] : i \in DOMAIN coords}),
        SetMax({coords[i][1] : i \in DOMAIN coords}),
        SetMax({coords[i][2] : i \in DOMAIN coords}))

-----------------------------------------------------------------------------
(* update_map *)

DefaultZoom == 4
MinBuffer == 50

\* The sum of f[1] .. f[Len(f)]
SumOf(f) ==
    LET sum[i \in 0..Len(f)] == IF i = 0 THEN 0 ELSE f[i] + sum[i - 1]
    IN sum[Len(f)]

\* df.geometry.union_all().centroid: the area-weighted mean of the centres
\* of the (disjoint) regions; the projection to EPSG:3857 and back is taken
\* as linear over the extent of the data
Centroid(df) ==
    LET area == [i \in DOMAIN df |->
                    ((df[i].geometry.lonMax - df[i].geometry.lonMin)
                   * (df[i].geometry.latMax - df[i].geometry.latMin)) \div 1000]
        mlon == [i \in DOMAIN df |->
                    area[i] * (df[i].geometry.lonMin + df[i].geometry.lonMax)]
        mlat == [i \in DOMAIN df |->
                    area[i] * (df[i].geometry.latMin + df[i].geometry.latMax)]
    IN [lon |-> SumOf(mlon) \div (2 * SumOf(area)),
        lat |-> SumOf(mlat) \div (2 * SumOf(area))]

\* 2 ** (-0.2 * zoom) in millionths, for a whole zoom level >= 0
Pow2Neg02(zoom) ==
    LET frac == <<1000000, 870551, 757858, 659754, 574349>>
    IN frac[(zoom % 5) + 1] \div (2 ^ (zoom \div 5))

\* buffer_deg = max(0.05, 1.5 * 2 ** (-0.2 * zoom))
render_buffer_deg(zoom) == max(MinBuffer, (1500 * Pow2Neg02(zoom)) \div 1000000)

\* Lines 244-254: center and zoom taken from relayoutData, else the defaults
ViewCenterLon(rd) ==
    IF IsNone(rd) THEN Centroid(gdf).lon
    ELSE IF ~IsNone(Val(rd).center_lon) /\ ~IsNone(Val(rd).center_lat)
         THEN Val(Val(rd).center_lon)
    ELSE IF ~IsNone(Val(rd).center)
         THEN Get(Val(Val(rd).center).lon, Centroid(gdf).lon)
    ELSE Centroid(gdf).lon

ViewCenterLat(rd) ==
    IF IsNone(rd) THEN Centroid(gdf).lat
    ELSE IF ~IsNone(Val(rd).center_lon) /\ ~IsNone(Val(rd).center_lat)
         THEN Val(Val(rd).center_lat)
    ELSE IF ~IsNone(Val(rd).center)
         THEN Get(Val(Val(rd).center).lat, Centroid(gdf).lat)
    ELSE Centroid(gdf).lat

ViewZoom(rd) == IF IsNone(rd) THEN DefaultZoom ELSE Get(Val(rd).zoom, DefaultZoom)

\* Variant: the test looks for the other checklist's value
use_locked_wrong_value(ls, locked_regions) == In("dynamic", ls) /\ ~IsNone(locked_regions)

\* use_locked = "locked" in lock_selection and locked_regions is not None
use_locked(ls, locked_regions) == In("locked", ls) /\ ~IsNone(locked_regions)

\* The try block of the dynamic branch raises: relayout_data is None
\* (None has no get), or Polygon(coords) rejects the coordinates
DynamicRaises(rd) ==
    \/ IsNone(rd)
    \/ /\ ~IsNone(Val(rd).coordinates)
       /\ Val(Val(rd).coordinates) # <<>>
       /\ PolygonRaises(Val(Val(rd).coordinates))

\* Variant: the visible-area polygon is ignored
DynamicVisible_box_only(rd) ==
    LET buffer_deg == render_buffer_deg(ViewZoom(rd))
        bbox == box(ViewCenterLon(rd) - buffer_deg, ViewCenterLat(rd) - buffer_deg,
                    ViewCenterLon(rd) + buffer_deg, ViewCenterLat(rd) + buffer_deg)
    IN Visible(bbox)

\* The frame the dynamic branch filters when nothing raises
DynamicVisible(rd) ==
    LET coords == Val(rd).coordinates
        buffer_deg == render_buffer_deg(ViewZoom(rd))
        bbox == box(ViewCenterLon(rd) - buffer_deg, ViewCenterLat(rd) - buffer_deg,
                    ViewCenterLon(rd) + buffer_deg, ViewCenterLat(rd) + buffer_deg)
    IN IF ~IsNone(coords) /\ Val(coords) # <<>>
       THEN Visible(Polygon(Val(coords)))
       ELSE Visible(bbox)

\* Variant: the dynamic branch tests the checklist value against None
RenderedFrame_dynamic_not_none(dyn, rd, ls, locked_regions) ==
    IF use_locked(ls, locked_regions) THEN IsIn(Val(locked_regions))
    ELSE IF DynamicRaises(rd) THEN gdf ELSE DynamicVisible(rd)

\* Variant: the dynamic branch is tested before the locked one
RenderedFrame_dynamic_first(dyn, rd, ls, locked_regions) ==
    IF In("dynamic", dyn)
    THEN IF DynamicRaises(rd) THEN gdf ELSE DynamicVisible(rd)
    ELSE IF use_locked(ls, locked_regions) THEN IsIn(Val(locked_regions))
    ELSE gdf

\* ddf as passed to px.choropleth_mapbox
RenderedFrame(dyn, rd, ls, locked_regions) ==
    IF use_locked(ls, locked_regions) THEN IsIn(Val(locked_regions))
    ELSE IF In("dynamic", dyn)
         THEN IF DynamicRaises(rd) THEN gdf ELSE DynamicVisible(rd)
    ELSE gdf

\* Variant: the branches take the range of the whole table
BranchRange_of_gdf(v, dyn, rd, ls, locked_regions) ==
    LET ddf == RenderedFrame(dyn, rd, ls, locked_regions)
        branchSets == \/ use_locked(ls, locked_regions)
                      \/ In("dynamic", dyn) /\ ~DynamicRaises(rd)
    IN IF branchSets /\ ddf # <<>>
       THEN Some([zmin |-> ColMin(gdf, v), zmax |-> ColMax(gdf, v)])
       ELSE None

\* zmin, zmax as the branches leave them: set from a non-empty ddf in the
\* locked branch and in the dynamic branch when nothing raised, else None
BranchRange(v, dyn, rd, ls, locked_regions) ==
    LET ddf == RenderedFrame(dyn, rd, ls, locked_regions)
        branchSets == \/ use_locked(ls, locked_regions)
                      \/ In("dynamic", dyn) /\ ~DynamicRaises(rd)
    IN IF branchSets /\ ddf # <<>>
       THEN Some([zmin |-> ColMin(ddf, v), zmax |-> ColMax(ddf, v)])
       ELSE None

\* Variant: the fallback takes the minimum for both ends
range_color_min_twice(v, branch) ==
    IF IsNone(branch)
    THEN [zmin |-> ColMin(gdf, v), zmax |-> ColMin(gdf, v)]
    ELSE Val(branch)

\* if zmin is None or zmax is None: the range of the whole table
range_color(v, branch) ==
    IF IsNone(branch)
    THEN [zmin |-> ColMin(gdf, v), zmax |-> ColMax(gdf, v)]
    ELSE Val(branch)

update_map(v, dyn, rd, ls, locked_regions) ==
    LET range == range_color(v, BranchRange(v, dyn, rd, ls, locked_regions))
    IN [locations  |-> IDs(RenderedFrame(dyn, rd, ls, locked_regions)),
        color      |-> v,
        zmin       |-> range.zmin,
        zmax       |-> range.zmax,
        center_lat |-> ViewCenterLat(rd),
        center_lon |-> ViewCenterLon(rd),
        zoom       |-> ViewZoom(rd)]

-----------------------------------------------------------------------------
(* lock_or_reset_callback *)

\* dash.no_update as the value of a checklist output
no_update == <<"dash.no_update">>

\* buffer_deg = max(0.05, 3.5 / (zoom + 0.5))
lock_buffer_deg(zoom) == max(MinBuffer, 7000 \div (2 * zoom + 1))

\* return None, None, None, dash.no_update, dash.no_update
NoSnapshot ==
    [scale |-> None, bbox |-> None, regions |-> None,
     dynamic |-> no_update, lock_selection |-> no_update]

\* Variant: the snapshot's two ends are exchanged
PolygonSnapshot_ends_swapped(rd, v) ==
    LET visible == Visible(Polygon(Val(Val(rd).coordinates)))
    IN [scale |-> Some([zmin |-> ColMax(visible, v), zmax |-> ColMin(visible, v)]),
        bbox |-> None,
        regions |-> Some(IDs(visible)),
        dynamic |-> no_update, lock_selection |-> no_update]

\* Lines 368-379: the snapshot taken from the viewport polygon
PolygonSnapshot(rd, v) ==
    LET visible == Visible(Polygon(Val(Val(rd).coordinates)))
    IN [scale |-> Some([zmin |-> ColMin(visible, v), zmax |-> ColMax(visible, v)]),
        bbox |-> None,
        regions |-> Some(IDs(visible)),
        dynamic |-> no_update, lock_selection |-> no_update]

\* center.get("lat"), center.get("lon") of relayout_data.get("mapbox.center", {})
LockCenterLat(rd) == IF IsNone(Val(rd).center) THEN None ELSE Val(Val(rd).center).lat
LockCenterLon(rd) == IF IsNone(Val(rd).center) THEN None ELSE Val(Val(rd).center).lon

\* Variant: a missing centre coordinate defaults to 0
FallbackSnapshot_default_centre(rd, v) ==
    LET center_lat == Get(LockCenterLat(rd), 0)
        center_lon == Get(LockCenterLon(rd), 0)
        zoom == Get(Val(rd).zoom, DefaultZoom)
        buffer_deg == lock_buffer_deg(zoom)
        bbox == box(center_lon - buffer_deg, center_lat - buffer_deg,
                    center_lon + buffer_deg, center_lat + buffer_deg)
        visible == Visible(bbox)
    IN IF visible # <<>>
       THEN [scale |-> Some([zmin |-> ColMin(visible, v), zmax |-> ColMax(visible, v)]),
             bbox |-> Some([lat_min |-> center_lat - buffer_deg,
                            lat_max |-> center_lat + buffer_deg,
                            lon_min |-> center_lon - buffer_deg,
                            lon_max |-> center_lon + buffer_deg]),
             regions |-> Some(IDs(visible)),
             dynamic |-> no_update, lock_selection |-> no_update]
       ELSE NoSnapshot

\* Variant: an empty selection stores its bbox and an empty range
FallbackSnapshot_bbox_always(rd, v) ==
    LET center_lat == LockCenterLat(rd)
        center_lon == LockCenterLon(rd)
        zoom == Get(Val(rd).zoom, DefaultZoom)
        buffer_deg == lock_buffer_deg(zoom)
        bbox == box(Val(center_lon) - buffer_deg, Val(center_lat) - buffer_deg,
                    Val(center_lon) + buffer_deg, Val(center_lat) + buffer_deg)
        visible == Visible(bbox)
    IN IF IsNone(center_lat) \/ IsNone(center_lon) THEN NoSnapshot
       ELSE [scale |-> IF visible # <<>>
                       THEN Some([zmin |-> ColMin(visible, v), zmax |-> ColMax(visible, v)])
                       ELSE None,
             bbox |-> Some([lat_min |-> Val(center_lat) - buffer_deg,
                            lat_max |-> Val(center_lat) + buffer_deg,
                            lon_min |-> Val(center_lon) - buffer_deg,
                            lon_max |-> Val(center_lon) + buffer_deg]),
             regions |-> IF visible # <<>> THEN Some(IDs(visible)) ELSE None,
             dynamic |-> no_update, lock_selection |-> no_update]

\* Variant: the fallback box takes its range from the whole table
FallbackSnapshot_range_of_gdf(rd, v) ==
    LET center_lat == LockCenterLat(rd)
        center_lon == LockCenterLon(rd)
        zoom == Get(Val(rd).zoom, DefaultZoom)
        buffer_deg == lock_buffer_deg(zoom)
        bbox == box(Val(center_lon) - buffer_deg, Val(center_lat) - buffer_deg,
                    Val(center_lon) + buffer_deg, Val(center_lat) + buffer_deg)
        visible == Visible(bbox)
    IN IF IsNone(center_lat) \/ IsNone(center_lon) THEN NoSnapshot
       ELSE IF visible # <<>>
       THEN [scale |-> Some([zmin |-> ColMin(gdf, v), zmax |-> ColMax(gdf, v)]),
             bbox |-> Some([lat_min |-> Val(center_lat) - buffer_deg,
                            lat_max |-> Val(center_lat) + buffer_deg,
                            lon_min |-> Val(center_lon) - buffer_deg,
                            lon_max |-> Val(center_lon) + buffer_deg]),
             regions |-> Some(IDs(visible)),
             dynamic |-> no_update, lock_selection |-> no_update]
       ELSE NoSnapshot

\* Lines 381-401: the fallback box; None - buffer_deg raises, which the
\* except clause turns into the final return
FallbackSnapshot(rd, v) ==
    LET center_lat == LockCenterLat(rd)
        center_lon == LockCenterLon(rd)
        zoom == Get(Val(rd).zoom, DefaultZoom)
        buffer_deg == lock_buffer_deg(zoom)
        bbox == box(Val(center_lon) - buffer_deg, Val(center_lat) - buffer_deg,
                    Val(center_lon) + buffer_deg, Val(center_lat) + buffer_deg)
        visible == Visible(bbox)
    IN IF IsNone(center_lat) \/ IsNone(center_lon) THEN NoSnapshot
       ELSE IF visible # <<>>
       THEN [scale |-> Some([zmin |-> ColMin(visible, v), zmax |-> ColMax(visible, v)]),
             bbox |-> Some([lat_min |-> Val(center_lat) - buffer_deg,
                            lat_max |-> Val(center_lat) + buffer_deg,
                            lon_min |-> Val(center_lon) - buffer_deg,
                            lon_max |-> Val(center_lon) + buffer_deg]),
             regions |-> Some(IDs(visible)),
             dynamic |-> no_update, lock_selection |-> no_update]
       ELSE NoSnapshot

\* Lines 367-406: the locking path
LockSnapshot(rd, v) ==
    LET coords == Val(rd).coordinates
    IN IF ~IsNone(coords) /\ Val(coords) # <<>>
       THEN IF PolygonRaises(Val(coords)) THEN NoSnapshot
            ELSE IF Visible(Polygon(Val(coords))) # <<>> THEN PolygonSnapshot(rd, v)
            ELSE FallbackSnapshot(rd, v)
       ELSE FallbackSnapshot(rd, v)

\* Variant: reset leaves the dynamic-scale checklist as it is
lock_or_reset_callback_keeps_dynamic(trig, lock_value, rd, v) ==
    IF trig = "reset-view"
    THEN [scale |-> None, bbox |-> None, regions |-> None,
          dynamic |-> no_update, lock_selection |-> <<>>]
    ELSE IF ~In("locked", lock_value) \/ IsNone(rd) THEN NoSnapshot
    ELSE LockSnapshot(rd, v)

\* Variant: the locking path does not test that the toggle is set
lock_or_reset_callback_no_toggle_test(trig, lock_value, rd, v) ==
    IF trig = "reset-view"
    THEN [scale |-> None, bbox |-> None, regions |-> None,
          dynamic |-> <<>>, lock_selection |-> <<>>]
    ELSE IF IsNone(rd) THEN NoSnapshot
    ELSE LockSnapshot(rd, v)

\* Variant: unlocking returns what reset returns
lock_or_reset_callback_unlock_as_reset(trig, lock_value, rd, v) ==
    IF trig = "reset-view" \/ ~In("locked", lock_value)
    THEN [scale |-> None, bbox |-> None, regions |-> None,
          dynamic |-> <<>>, lock_selection |-> <<>>]
    ELSE IF IsNone(rd) THEN NoSnapshot
    ELSE LockSnapshot(rd, v)

\* Variant: the engaged test is inverted
lock_or_reset_callback_test_inverted(trig, lock_value, rd, v) ==
    IF trig = "reset-view"
    THEN [scale |-> None, bbox |-> None, regions |-> None,
          dynamic |-> <<>>, lock_selection |-> <<>>]
    ELSE IF In("locked", lock_value) \/ IsNone(rd) THEN NoSnapshot
    ELSE LockSnapshot(rd, v)

lock_or_reset_callback(trig, lock_value, rd, v) ==
    IF trig = "reset-view"
    THEN [scale |-> None, bbox |-> None, regions |-> None,
          dynamic |-> <<>>, lock_selection |-> <<>>]
    ELSE IF ~In("locked", lock_value) \/ IsNone(rd) THEN NoSnapshot
    ELSE LockSnapshot(rd, v)

-----------------------------------------------------------------------------
(* Events of the rendering surface and the controls *)

\* The four corners of the visible area, as mapbox._derived.coordinates
Corners(lonMin, latMin, lonMax, latMax) ==
    << <<lonMin, latMax>>, <<lonMax, latMax>>, <<lonMax, latMin>>, <<lonMin, latMin>> >>

\* Viewport centres <<lon, lat>>: inside region "0", in the gap between
\* regions "0" and "1", and far north of every region
Centers == { <<500, 500>>, <<1200, 500>>, <<500, 5000>> }

Zooms == { 4, 12 }

CenterOpts == {None} \cup { Some([lat |-> Some(p[2]), lon |-> Some(p[1])]) : p \in Centers }
ZoomOpts == {None} \cup { Some(z) : z \in Zooms }

\* relayoutData payloads: the keys mapbox.center.lon, mapbox.center.lat,
\* mapbox.center, mapbox.zoom and mapbox._derived.coordinates, each present
\* or not.  The payload with no key stands for any relayout event that
\* carries no viewport (such as {"autosize": True}).
Payload(flat_lon, flat_lat, c, z, co) ==
    [center_lon |-> flat_lon, center_lat |-> flat_lat, center |-> c, zoom |-> z,
     coordinates |-> co]

\* Payloads without the visible area: every centre, or none, at every zoom
BoxPayloads == { Payload(None, None, c, z, None) : c \in CenterOpts, z \in ZoomOpts }

\* Payloads as mapbox sends them, <<centre lon, centre lat, zoom, visible
\* area>>: inside region "2"; every region; the gap between regions "0" and
\* "1"; far from every region; and one with too few points for a polygon
Views ==
    { <<4500, 500, 12, Corners(4400, 400, 4600, 600)>>,
      <<4500, 500, 4, Corners(-500, -2000, 9500, 3000)>>,
      <<1200, 500, 12, Corners(1100, 400, 1300, 600)>>,
      <<500, 5000, 12, Corners(400, 4900, 600, 5100)>>,
      <<500, 500, 4, << <<0, 0>>, <<1000, 1000>> >> >> }

PolygonPayloads ==
    { Payload(None, None, Some([lat |-> Some(w[2]), lon |-> Some(w[1])]),
              Some(w[3]), Some(w[4])) : w \in Views }

\* A payload with the flat centre keys only
FlatPayloads == { Payload(Some(1200), Some(500), None, Some(4), None) }

Payloads == BoxPayloads \cup PolygonPayloads \cup FlatPayloads

Toggle(list, value) == IF In(value, list) THEN <<>> ELSE <<value>>

Init ==
    /\ var = available_vars[1]
    /\ dynamic = <<>>
    /\ lock_selection = <<>>
    /\ n_clicks = 0
    /\ relayoutData = None
    /\ lockedColourScale = None
    /\ lockedBbox = None
    /\ lockedRegions = None
    /\ figure = None
    /\ pendingMap = TRUE          \* update_map has no prevent_initial_call
    /\ pendingLock = FALSE        \* prevent_initial_call=True
    /\ lastCallback = ""
    /\ triggered_id = ""
    /\ capturedVar = None

\* The page has loaded: the initial call of update_map has produced a figure
Loaded == ~IsNone(figure)

\* No callback is queued: each interaction is one ordered update cycle, and
\* the callbacks an output triggers run before the next interaction
Idle == Loaded /\ ~pendingMap /\ ~pendingLock

\* update_map runs with the current inputs and states and sets map.figure
Render(trig) ==
    /\ figure' = Some(update_map(var', dynamic', relayoutData', lock_selection, lockedRegions))
    /\ lastCallback' = "update_map"
    /\ triggered_id' = trig
    /\ UNCHANGED capturedVar

\* lock_or_reset_callback runs and its five outputs are applied; an output
\* that changes an Input of a callback queues that callback.  queued tells
\* whether an invocation stays queued, again whether the renderer queues
\* the callback for a change it made to its own Input.
RunLock(trig, lock_value, queued, again) ==
    LET out == lock_or_reset_callback(trig, lock_value, relayoutData, var)
        newDynamic == IF out.dynamic = no_update THEN dynamic ELSE out.dynamic
        newLock == IF out.lock_selection = no_update THEN lock_value ELSE out.lock_selection
    IN /\ lockedColourScale' = out.scale
       /\ lockedBbox' = out.bbox
       /\ lockedRegions' = out.regions
       /\ dynamic' = newDynamic
       /\ lock_selection' = newLock
       /\ pendingMap' = (pendingMap \/ newDynamic # dynamic)
       /\ pendingLock' = (queued \/ (again /\ newLock # lock_value))
       /\ lastCallback' = "lock_or_reset_callback"
       /\ triggered_id' = trig
       /\ capturedVar' = IF IsNone(out.regions) THEN None ELSE Some(var)

\* The initial call, or the call queued by a change of dynamic-scale.value
RunPendingMap ==
    /\ pendingMap
    /\ pendingMap' = FALSE
    /\ UNCHANGED <<var, dynamic, relayoutData>>
    /\ Render(IF Loaded THEN "dynamic-scale" ELSE "")
    /\ UNCHANGED <<lock_selection, n_clicks, lockedColourScale, lockedBbox,
                   lockedRegions, pendingLock>>

\* The call queued by a change of lock-selection.value made by reset
RunPendingLock ==
    /\ pendingLock
    /\ RunLock("lock-selection", lock_selection, FALSE, FALSE)
    /\ UNCHANGED <<var, n_clicks, relayoutData, figure>>

\* Pan or zoom: the map reports a new relayoutData
Relayout(payload) ==
    /\ Idle
    /\ relayoutData' = Some(payload)
    /\ UNCHANGED <<var, dynamic>>
    /\ Render("map")
    /\ UNCHANGED <<lock_selection, n_clicks, lockedColourScale, lockedBbox,
                   lockedRegions, pendingMap, pendingLock>>

\* The attribute selector changes (the dropdown is not clearable)
ChangeAttribute(v) ==
    /\ Idle
    /\ v # var
    /\ var' = v
    /\ UNCHANGED <<dynamic, relayoutData>>
    /\ Render("var-dropdown")
    /\ UNCHANGED <<lock_selection, n_clicks, lockedColourScale, lockedBbox,
                   lockedRegions, pendingMap, pendingLock>>

\* The dynamic-scale checkbox is ticked or cleared
ToggleDynamic ==
    /\ Idle
    /\ dynamic' = Toggle(dynamic, "dynamic")
    /\ UNCHANGED <<var, relayoutData>>
    /\ Render("dynamic-scale")
    /\ UNCHANGED <<lock_selection, n_clicks, lockedColourScale, lockedBbox,
                   lockedRegions, pendingMap, pendingLock>>

\* The lock-selection checkbox is ticked or cleared
ToggleLock ==
    /\ Idle
    /\ RunLock("lock-selection", Toggle(lock_selection, "locked"), pendingLock, FALSE)
    /\ UNCHANGED <<var, n_clicks, relayoutData, figure>>

\* The Reset button is clicked.  Whether the renderer re-invokes the
\* callback for the change it made itself to lock-selection.value is left
\* open (again).
ResetClick ==
    /\ Idle
    /\ n_clicks < MaxClicks
    /\ n_clicks' = n_clicks + 1
    /\ \E again \in BOOLEAN : RunLock("reset-view", lock_selection, pendingLock, again)
    /\ UNCHANGED <<var, relayoutData, figure>>

Next ==
    \/ RunPendingMap
    \/ RunPendingLock
    \/ \E payload \in Payloads : Relayout(payload)
    \/ \E v \in {available_vars[i] : i \in DOMAIN available_vars} : ChangeAttribute(v)
    \/ ToggleDynamic
    \/ ToggleLock
    \/ ResetClick

Spec == Init /\ [][Next]_vars

TypeOK ==
    /\ In(var, available_vars)
    /\ dynamic \in {<<>>, <<"dynamic">>}
    /\ lock_selection \in {<<>>, <<"locked">>}
    /\ n_clicks \in 0..MaxClicks
    /\ pendingMap \in BOOLEAN /\ pendingLock \in BOOLEAN

-----------------------------------------------------------------------------
(* Vocabulary of the properties *)

LockSet == In("locked", lock_selection)
DynamicSet == In("dynamic", dynamic)

\* A snapshot with a feature-id set exists
HasSnapshot == ~IsNone(lockedRegions)

\* No store holds anything
NoSnapshotStored == IsNone(lockedColourScale) /\ IsNone(lockedBbox) /\ IsNone(lockedRegions)

\* The state right after update_map has run: figure is its output for the
\* current var, dynamic, relayoutData, lock_selection and lockedRegions
Rendered == lastCallback = "update_map"

ToSet(list) == { list[i] : i \in DOMAIN list }

StoreIds == { gdf[i].ID : i \in DOMAIN gdf }

\* The values of attribute v over the features with an id in ids
ValuesOver(ids, v) == { gdf[i][v] : i \in { j \in DOMAIN gdf : gdf[j].ID \in ids } }

\* <<lo, hi>> is (min, max) of the non-empty set S
IsRangeOf(lo, hi, S) == lo \in S /\ hi \in S /\ \A x \in S : lo <= x /\ x <= hi

\* list holds exactly the ids of ids that are in the store, in store order
IsStoreSubset(list, ids) ==
    /\ ToSet(list) = ids \cap StoreIds
    /\ \A i, j \in DOMAIN list : i < j =>
          \E a, b \in DOMAIN gdf : a < b /\ gdf[a].ID = list[i] /\ gdf[b].ID = list[j]

\* The figure shows the whole store with the full-dataset range of var
FreeOutput ==
    /\ Val(figure).locations = [i \in DOMAIN gdf |-> gdf[i].ID]
    /\ IsRangeOf(Val(figure).zmin, Val(figure).zmax, ValuesOver(StoreIds, var))

\* The figure's range is the full-dataset range of var
FullRange == IsRangeOf(Val(figure).zmin, Val(figure).zmax, ValuesOver(StoreIds, var))

-----------------------------------------------------------------------------
(* C1 *)

\* C1 (lock fidelity): while the lock toggle is set and a snapshot with a
\* feature-id set exists, a viewport event that leaves the lock set and the
\* attribute unchanged renders the same colour range as the render before.
C1_LockFidelity ==
    [][ ( /\ Rendered /\ LockSet /\ HasSnapshot
          /\ lastCallback' = "update_map" /\ triggered_id' = "map"
          /\ LockSet' /\ var' = var )
        => ( /\ Val(figure').zmin = Val(figure).zmin
             /\ Val(figure').zmax = Val(figure).zmax ) ]_vars

\* Locked over the region valued 3, then panned to see every region: the
\* range is still (3, 3)
C1_Witness ==
    /\ Rendered /\ triggered_id = "map" /\ LockSet
    /\ lockedRegions = Some(<<"2">>)
    /\ var = "ghg_emissions"
    /\ ~IsNone(relayoutData)
    /\ Val(relayoutData).coordinates = Some(Corners(-500, -2000, 9500, 3000))
    /\ Val(figure).zmin = 3 /\ Val(figure).zmax = 3

-----------------------------------------------------------------------------
(* C2 *)

\* C2: in every render made while the lock toggle is set and a snapshot
\* exists, the rendered range is the range stored in locked-colour-scale
\* when the snapshot was captured, also after the attribute was changed.
C2_RangeIsStoredRange ==
    (Rendered /\ LockSet /\ HasSnapshot /\ ~IsNone(lockedColourScale))
    => ( /\ Val(figure).zmin = Val(lockedColourScale).zmin
         /\ Val(figure).zmax = Val(lockedColourScale).zmax )

\* C2 as amended: the rendered range is (min, max) of the attribute selected
\* now over the features of the snapshot's id set; it is the stored range as
\* long as the attribute is the one the snapshot was captured for.
C2_RangeOverSnapshotIds ==
    (Rendered /\ LockSet /\ HasSnapshot)
    => ( /\ IsRangeOf(Val(figure).zmin, Val(figure).zmax,
                      ValuesOver(ToSet(Val(lockedRegions)), var))
         /\ ( var = Val(capturedVar) =>
                 /\ Val(figure).zmin = Val(lockedColourScale).zmin
                 /\ Val(figure).zmax = Val(lockedColourScale).zmax ) )

\* Locked over region "2" for ghg_emissions (stored range (3, 3)), then
\* the attribute changed: the range drawn is that of pop_density, (7, 7)
C2_Witness ==
    /\ Rendered /\ LockSet
    /\ lockedRegions = Some(<<"2">>)
    /\ lockedColourScale = Some([zmin |-> 3, zmax |-> 3])
    /\ capturedVar = Some("ghg_emissions")
    /\ var = "pop_density"
    /\ Val(figure).zmin = 7 /\ Val(figure).zmax = 7

-----------------------------------------------------------------------------
(* C3 *)

\* C3: in every render made while the lock toggle is set and a snapshot with
\* a feature-id set exists, the rendered subset is exactly the store entries
\* whose id is in that set, whatever the viewport and the dynamic toggle.
C3_LockedSubset ==
    (Rendered /\ LockSet /\ HasSnapshot)
    => IsStoreSubset(Val(figure).locations, ToSet(Val(lockedRegions)))

\* Locked over region "2" with the dynamic toggle set and every region in
\* view: only region "2" is drawn
C3_Witness ==
    /\ Rendered /\ LockSet /\ DynamicSet
    /\ lockedRegions = Some(<<"2">>)
    /\ ~IsNone(relayoutData)
    /\ Val(relayoutData).coordinates = Some(Corners(-500, -2000, 9500, 3000))
    /\ Val(figure).locations = <<"2">>

-----------------------------------------------------------------------------
(* C4 *)

\* The viewport resolves to a region that holds at least one feature, both
\* as update_map and as lock_or_reset_callback resolve it
ShowsFeature(rd) ==
    /\ ~IsNone(rd)
    /\ ~DynamicRaises(rd)
    /\ DynamicVisible(rd) # <<>>
    /\ ~IsNone(LockSnapshot(rd, var).regions)

-----------------------------------------------------------------------------
(* C5 *)

\* The region update_map filters by in the dynamic branch
RenderRegion(rd) ==
    IF ~IsNone(Val(rd).coordinates)
    THEN Polygon(Val(Val(rd).coordinates))
    ELSE box(ViewCenterLon(rd) - render_buffer_deg(ViewZoom(rd)),
             ViewCenterLat(rd) - render_buffer_deg(ViewZoom(rd)),
             ViewCenterLon(rd) + render_buffer_deg(ViewZoom(rd)),
             ViewCenterLat(rd) + render_buffer_deg(ViewZoom(rd)))

\* The ids of the features that share a point with region r
IdsIn(r) == { gdf[i].ID : i \in { j \in DOMAIN gdf : intersects(gdf[j].geometry, r) } }

\* The figure is the Dynamic-mode output for the current viewport: the
\* visible subset with its range, the full-dataset range when nothing is
\* visible, and the Free-mode output when there is no viewport to resolve
DynamicOutput ==
    IF IsNone(relayoutData) \/ DynamicRaises(relayoutData) THEN FreeOutput
    ELSE LET V == IdsIn(RenderRegion(relayoutData))
         IN /\ IsStoreSubset(Val(figure).locations, V)
            /\ IF V = {} THEN FullRange
               ELSE IsRangeOf(Val(figure).zmin, Val(figure).zmax, ValuesOver(V, var))

-----------------------------------------------------------------------------
(* C6 *)

\* The region the lock resolves for the viewport holds no feature: the
\* visible-area polygon where the viewport carries one, else the box around
\* the centre
LockRegionEmpty(rd) ==
    IF ~IsNone(Val(rd).coordinates)
    THEN /\ ~PolygonRaises(Val(Val(rd).coordinates))
         /\ IdsIn(Polygon(Val(Val(rd).coordinates))) = {}
    ELSE /\ ~IsNone(LockCenterLat(rd)) /\ ~IsNone(LockCenterLon(rd))
         /\ LET b == lock_buffer_deg(Get(Val(rd).zoom, DefaultZoom))
            IN IdsIn(box(Val(LockCenterLon(rd)) - b, Val(LockCenterLat(rd)) - b,
                         Val(LockCenterLon(rd)) + b, Val(LockCenterLat(rd)) + b)) = {}

\* C6: engaging the lock while the viewport's resolved region (the derived
\* polygon when there is one) holds no feature captures no snapshot: the
\* three stores stay None and the toggle stays set.
C6_EmptyRegionCapturesNothing ==
    [][ ( /\ ~LockSet /\ LockSet'
          /\ lastCallback' = "lock_or_reset_callback"
          /\ triggered_id' = "lock-selection"
          /\ ~IsNone(relayoutData)
          /\ LockRegionEmpty(relayoutData) )
        => (NoSnapshotStored' /\ LockSet') ]_vars

-----------------------------------------------------------------------------
(* C7 *)

\* A click on Reset is the only step that changes n_clicks
ResetStep == n_clicks' # n_clicks

\* The invocation that the change reset made to lock-selection.value causes
FollowUpStep == pendingLock /\ ~pendingLock'

\* C7: a reset leaves both toggles cleared and no snapshot, from every
\* state; and a second reset, or the lock-selection invocation that the
\* cleared toggle causes, right after a reset changes nothing of the
\* attribute, the toggles, the viewport, the stores and the figure.
C7_ResetClearsAndIsIdempotent ==
    [][ /\ ( ResetStep => (dynamic' = <<>> /\ lock_selection' = <<>> /\ NoSnapshotStored') )
        /\ ( (triggered_id = "reset-view" /\ (ResetStep \/ FollowUpStep))
               => UNCHANGED <<var, dynamic, lock_selection, relayoutData,
                              lockedColourScale, lockedBbox, lockedRegions, figure>> ) ]_vars

\* Reset was clicked twice, the last callback ran for reset, and the figure
\* on screen is still the one drawn while locked on region "2"
C7_Witness ==
    /\ triggered_id = "reset-view" /\ n_clicks = 2
    /\ dynamic = <<>> /\ lock_selection = <<>> /\ NoSnapshotStored
    /\ Val(figure).locations = <<"2">>

-----------------------------------------------------------------------------
(* C8 *)

\* The viewport carries what the dynamic branch resolves a region from: a
\* visible-area polygon, or a centre and a zoom
WellFormed(rd) ==
    /\ ~IsNone(rd)
    /\ ~DynamicRaises(rd)
    /\ \/ ~IsNone(Val(rd).coordinates)
       \/ /\ ~IsNone(Val(rd).zoom)
          /\ \/ ~IsNone(Val(rd).center_lon) /\ ~IsNone(Val(rd).center_lat)
             \/ /\ ~IsNone(Val(rd).center)
                /\ ~IsNone(Val(Val(rd).center).lat)
                /\ ~IsNone(Val(Val(rd).center).lon)

\* C8: in Dynamic mode (dynamic toggle set, lock not set or no snapshot), a
\* viewport whose region holds the non-empty feature set V is rendered as
\* exactly V with the range (min, max) of the selected attribute over V.
C8_DynamicRendersVisible ==
    ( /\ Rendered /\ DynamicSet /\ ~(LockSet /\ HasSnapshot)
      /\ WellFormed(relayoutData)
      /\ IdsIn(RenderRegion(relayoutData)) # {} )
    => ( /\ IsStoreSubset(Val(figure).locations, IdsIn(RenderRegion(relayoutData)))
         /\ IsRangeOf(Val(figure).zmin, Val(figure).zmax,
                      ValuesOver(IdsIn(RenderRegion(relayoutData)), var)) )

\* Values 1, 2, 3, 100, 200 and a box around the gap that meets only the
\* regions valued 1 and 2: range (1, 2)
C8_Witness ==
    /\ Rendered /\ DynamicSet /\ ~LockSet
    /\ var = "ghg_emissions"
    /\ WellFormed(relayoutData)
    /\ IsNone(Val(relayoutData).coordinates)
    /\ Val(figure).locations = <<"0", "1">>
    /\ Val(figure).zmin = 1 /\ Val(figure).zmax = 2

-----------------------------------------------------------------------------
(* C9 *)

\* C9 (fallback equivalence): a render whose subset is empty has the
\* full-dataset range of the selected attribute, in every mode.
C9_EmptySubsetFullRange ==
    (Rendered /\ Val(figure).locations = <<>>) => FullRange

\* Dynamic mode, a viewport far from every region: nothing drawn, range
\* (1, 200)
C9_Witness ==
    /\ Rendered /\ DynamicSet
    /\ var = "ghg_emissions"
    /\ WellFormed(relayoutData)
    /\ Val(figure).locations = <<>>
    /\ Val(figure).zmin = 1 /\ Val(figure).zmax = 200

-----------------------------------------------------------------------------
(* C10 *)

\* C10: a render made while neither toggle is set shows the whole store
\* with the full-dataset range of the selected attribute, for every viewport
\* and attribute, also after a reset.
C10_FreeRendersAll ==
    (Rendered /\ ~DynamicSet /\ ~LockSet) => FreeOutput

\* After a reset, with neither toggle set, a viewport event inside region
\* "2" only: everything is drawn with the full range
C10_Witness ==
    /\ Rendered /\ triggered_id = "map"
    /\ ~DynamicSet /\ ~LockSet /\ NoSnapshotStored
    /\ n_clicks > 0
    /\ ~IsNone(relayoutData)
    /\ Val(relayoutData).coordinates = Some(Corners(4400, 400, 4600, 600))
    /\ var = "pop_density"
    /\ Val(figure).zmin = -3 /\ Val(figure).zmax = 40
    /\ Len(Val(figure).locations) = Len(gdf)

-----------------------------------------------------------------------------
(* C11 *)

\* The lock callback has just run for a change of the lock checklist
LockToggleStep ==
    lastCallback' = "lock_or_reset_callback" /\ triggered_id' = "lock-selection"

\* C11 (disengage): when the lock checklist goes from set to cleared, the
\* callback sets all three snapshot stores to None and leaves the dynamic
\* checklist, the selected attribute and the viewport as they were, so the
\* mode afterwards is Dynamic when the dynamic toggle is set and Free
\* otherwise.
C11_DisengageClearsSnapshotOnly ==
    [][ (LockToggleStep /\ LockSet /\ ~LockSet')
        => ( /\ NoSnapshotStored'
             /\ dynamic' = dynamic /\ var' = var /\ relayoutData' = relayoutData
             /\ DynamicSet' = DynamicSet ) ]_vars

\* The lock was engaged over region "2" in Dynamic mode and a render showed
\* it; after the unlock the stores are empty and the dynamic toggle still set
C11_Witness ==
    /\ lastCallback = "lock_or_reset_callback" /\ triggered_id = "lock-selection"
    /\ ~LockSet /\ NoSnapshotStored /\ DynamicSet
    /\ ~IsNone(relayoutData)
    /\ Val(figure).locations = <<"2">>
    /\ ~pendingMap /\ ~pendingLock

-----------------------------------------------------------------------------
(* C12 *)

\* A viewport event that carries no visible area and lacks the centre or
\* the zoom
Malformed(rd) ==
    /\ ~IsNone(rd)
    /\ IsNone(Val(rd).coordinates)
    /\ ~WellFormed(rd)

\* The dynamic branch of update_map is the one taken
DynamicBranch == DynamicSet /\ ~(LockSet /\ HasSnapshot)

\* C12 (malformed viewport): in Dynamic mode a viewport event without a
\* centre or without a zoom is rendered against the region resolved before
\* it, so the render that follows a Dynamic render of a well-formed viewport
\* shows the same subset and range; when no viewport was known before, it is
\* the full-dataset output.  The render is never filtered by a box built
\* from the default centre or the default zoom.
C12_MalformedViewportReusesRegion ==
    [][ ( /\ lastCallback' = "update_map" /\ triggered_id' = "map"
          /\ DynamicBranch'
          /\ Malformed(relayoutData') )
        => ( /\ (Rendered /\ DynamicBranch /\ WellFormed(relayoutData))
                => ( /\ Val(figure').locations = Val(figure).locations
                     /\ Val(figure').zmin = Val(figure).zmin
                     /\ Val(figure').zmax = Val(figure).zmax )
             /\ IsNone(relayoutData) => FreeOutput' ) ]_vars

-----------------------------------------------------------------------------
(* C13 *)

\* The locking path cannot build a region from rd: there is no relayout
\* data, the visible-area polygon cannot be built, or the fallback box is
\* needed and the centre has no lat or no lon
CaptureFails(rd) ==
    \/ IsNone(rd)
    \/ LET coords == Val(rd).coordinates
           usable == ~IsNone(coords) /\ Val(coords) # <<>>
       IN \/ usable /\ PolygonRaises(Val(coords))
          \/ /\ ~usable \/ IdsIn(Polygon(Val(coords))) = {}
             /\ IsNone(LockCenterLat(rd)) \/ IsNone(LockCenterLon(rd))

\* C13 (failed capture): when the lock checklist is set and the region
\* cannot be built (no relayout data, no centre lat/lon, or a polygon that
\* cannot be constructed), the callback returns normally, the three snapshot
\* stores hold after it what they held before it, and it writes neither
\* checklist: lock-selection keeps the value the toggle gave it and
\* dynamic-scale its own.
C13_FailedCaptureKeepsStores ==
    [][ (LockToggleStep /\ LockSet' /\ CaptureFails(relayoutData'))
        => ( /\ lockedColourScale' = lockedColourScale
             /\ lockedBbox' = lockedBbox
             /\ lockedRegions' = lockedRegions
             /\ dynamic' = dynamic
             /\ lock_selection' = Toggle(lock_selection, "locked")
             /\ ~pendingMap' /\ ~pendingLock' ) ]_vars

\* The lock was set in Dynamic mode over a payload that has the flat centre
\* keys only, which the locking path does not read: nothing is stored
C13_Witness ==
    /\ lastCallback = "lock_or_reset_callback" /\ triggered_id = "lock-selection"
    /\ LockSet /\ DynamicSet
    /\ ~IsNone(relayoutData)
    /\ ~IsNone(Val(relayoutData).center_lon)
    /\ CaptureFails(relayoutData)
    /\ NoSnapshotStored

-----------------------------------------------------------------------------
(* C14 *)

\* C14 (range order): the colour range of every figure update_map has
\* produced has zmin <= zmax, and so has every range stored in
\* locked-colour-scale.
C14_RangeOrdered ==
    /\ ~IsNone(figure) => Val(figure).zmin <= Val(figure).zmax
    /\ ~IsNone(lockedColourScale)
          => Val(lockedColourScale).zmin <= Val(lockedColourScale).zmax

\* A stored range (1, 200) over every region, and a locked render of
\* pop_density over them with the range (-3, 40)
C14_Witness ==
    /\ Rendered /\ LockSet
    /\ ~IsNone(lockedColourScale)
    /\ Val(lockedColourScale).zmin = 1 /\ Val(lockedColourScale).zmax = 200
    /\ var = "pop_density"
    /\ Val(figure).zmin = -3 /\ Val(figure).zmax = 40

-----------------------------------------------------------------------------
(* C15 *)

\* C15 (a lock toggle ends in a render): once the lock callback has
\* completed for a change of the lock checklist and no callback is queued,
\* the figure is what update_map produces for the attribute, checklists,
\* viewport and snapshot of that state; no further event is needed.
C15_LockToggleEndsInRender ==
    ( /\ lastCallback = "lock_or_reset_callback" /\ triggered_id = "lock-selection"
      /\ ~pendingMap /\ ~pendingLock )
    => figure = Some(update_map(var, dynamic, relayoutData, lock_selection, lockedRegions))

-----------------------------------------------------------------------------
(* C16 *)

\* C16 (snapshot only while locked): in every reachable state, a store that
\* is not None implies that "locked" is in the lock checklist; after a reset
\* and after an unlock no store holds anything.
C16_SnapshotOnlyWhileLocked ==
    /\ ~NoSnapshotStored => LockSet
    /\ (lastCallback = "lock_or_reset_callback" /\ ~LockSet) => NoSnapshotStored

\* A snapshot taken by the fallback box (bbox stored) while the lock is set,
\* in a session that has already been reset once
C16_Witness ==
    /\ LockSet
    /\ ~IsNone(lockedBbox) /\ ~IsNone(lockedRegions) /\ ~IsNone(lockedColourScale)
    /\ n_clicks > 0

-----------------------------------------------------------------------------
(* C17 *)

\* C17 (one snapshot, three stores): locked-colour-scale is None exactly
\* when locked-regions is None, and locked-bbox is not None only when the
\* other two are not None.
C17_SnapshotAtomic ==
    /\ IsNone(lockedColourScale) <=> IsNone(lockedRegions)
    /\ ~IsNone(lockedBbox) => (~IsNone(lockedColourScale) /\ ~IsNone(lockedRegions))

\* A snapshot taken from the visible-area polygon: scale and regions stored,
\* no bbox
C17_Witness ==
    /\ ~IsNone(lockedColourScale) /\ ~IsNone(lockedRegions) /\ IsNone(lockedBbox)
    /\ Len(Val(lockedRegions)) = Len(gdf)

-----------------------------------------------------------------------------
(* C18 *)

\* C18 (one region for capture and render): when the lock is engaged on a
\* well-formed viewport and a snapshot is taken, the captured id set is the
\* set of features the dynamic filter of update_map selects for that same
\* viewport.
C18_CaptureEqualsDynamicSubset ==
    ( /\ lastCallback = "lock_or_reset_callback" /\ triggered_id = "lock-selection"
      /\ LockSet /\ HasSnapshot
      /\ WellFormed(relayoutData) )
    => ToSet(Val(lockedRegions)) = ToSet(IDs(DynamicVisible(relayoutData)))

-----------------------------------------------------------------------------
(* C19 *)

\* C19 (a stored snapshot is well-formed): whenever locked-regions is not
\* None, its id list is non-empty, every id is an id of the feature store,
\* and locked-colour-scale holds (min, max) of the attribute selected at
\* capture over exactly those features; a render made with the lock set and
\* a snapshot therefore draws at least one feature and does not take the
\* empty-subset fallback.
C19_SnapshotWellFormed ==
    HasSnapshot
    => ( /\ Val(lockedRegions) # <<>>
         /\ ToSet(Val(lockedRegions)) \subseteq StoreIds
         /\ ~IsNone(lockedColourScale) /\ ~IsNone(capturedVar)
         /\ IsRangeOf(Val(lockedColourScale).zmin, Val(lockedColourScale).zmax,
                      ValuesOver(ToSet(Val(lockedRegions)), Val(capturedVar)))
         /\ (Rendered /\ LockSet)
               => /\ Val(figure).locations = Val(lockedRegions)
                  /\ IsRangeOf(Val(figure).zmin, Val(figure).zmax,
                               ValuesOver(ToSet(Val(lockedRegions)), var)) )

\* A snapshot of all five regions taken while pop_density was selected holds
\* the range (-3, 40); a locked render of ghg_emissions over it draws the
\* five regions with the range (1, 200)
C19_Witness ==
    /\ Rendered /\ LockSet /\ HasSnapshot
    /\ capturedVar = Some("pop_density")
    /\ Len(Val(lockedRegions)) = Len(gdf)
    /\ lockedColourScale = Some([zmin |-> -3, zmax |-> 40])
    /\ var = "ghg_emissions"
    /\ Val(figure).zmin = 1 /\ Val(figure).zmax = 200

====
